---- MODULE Spec2Model ----
(***************************************************************************)
(* Model of the at-feeds indexer: the firehose subscription handler        *)
(* (FirehoseSubscription.handleEvent), the link helpers (indieweb.ts) and   *)
(* the CSV mapping registry (IndiewebMappings).                             *)
(*                                                                          *)
(* Strings on which the code computes (handles, domains, links, post text,  *)
(* the CSV file) are sequences of one-character strings, so that case       *)
(* folding, suffix tests, splitting and trimming are computed as the code   *)
(* computes them.  Opaque identifiers (uri, cid) are plain strings.         *)
(***************************************************************************)
EXTENDS Integers, Sequences, FiniteSets, TLC

(***************************************************************************)
(* JavaScript string primitives used by the source.                        *)
(***************************************************************************)
UpperChars ==
  <<"A","B","C","D","E","F","G","H","I","J","K","L","M",
    "N","O","P","Q","R","S","T","U","V","W","X","Y","Z">>

LowerChars ==
  <<"a","b","c","d","e","f","g","h","i","j","k","l","m",
    "n","o","p","q","r","s","t","u","v","w","x","y","z">>

LowerChar(c) ==
  IF \E k \in DOMAIN UpperChars : UpperChars[k] = c
    THEN LowerChars[CHOOSE k \in DOMAIN UpperChars : UpperChars[k] = c]
    ELSE c

\* String.prototype.toLowerCase
toLowerCase(s) == [k \in 1..Len(s) |-> LowerChar(s[k])]

\* String.prototype.includes
includes(s, sub) ==
  \E k \in 1..(Len(s) - Len(sub) + 1) : SubSeq(s, k, k + Len(sub) - 1) = sub

\* String.prototype.endsWith (case-sensitive, as in JavaScript)
endsWith(s, suffix) ==
  /\ Len(s) >= Len(suffix)
  /\ SubSeq(s, Len(s) - Len(suffix) + 1, Len(s)) = suffix

\* String.prototype.startsWith
startsWith(s, prefix) ==
  /\ Len(s) >= Len(prefix)
  /\ SubSeq(s, 1, Len(prefix)) = prefix

\* String.prototype.replace(pattern, '') with a string pattern: only the
\* first occurrence is removed.
replace(s, pattern) ==
  IF includes(s, pattern)
    THEN LET k == CHOOSE j \in 1..(Len(s) - Len(pattern) + 1) :
                    /\ SubSeq(s, j, j + Len(pattern) - 1) = pattern
                    /\ \A m \in 1..(j - 1) :
                         SubSeq(s, m, m + Len(pattern) - 1) # pattern
         IN  SubSeq(s, 1, k - 1) \o SubSeq(s, k + Len(pattern), Len(s))
    ELSE s

WhiteSpace == {" ", "\t", "\r", "\n"}

\* String.prototype.trim
trim(s) ==
  LET keep == {k \in 1..Len(s) : s[k] \notin WhiteSpace}
  IN  IF keep = {} THEN <<>>
      ELSE SubSeq(s, CHOOSE k \in keep : \A m \in keep : k <= m,
                     CHOOSE k \in keep : \A m \in keep : k >= m)

\* String.prototype.split with a one-character separator
RECURSIVE split(_, _)
split(s, sep) ==
  IF \E k \in 1..Len(s) : s[k] = sep
    THEN LET k == CHOOSE j \in 1..Len(s) :
                    s[j] = sep /\ \A m \in 1..(j - 1) : s[m] # sep
         IN  <<SubSeq(s, 1, k - 1)>> \o split(SubSeq(s, k + 1, Len(s)), sep)
    ELSE <<s>>

\* Array.prototype.filter / map over a sequence
RECURSIVE SelectLines(_)
SelectLines(ls) ==
  IF ls = <<>> THEN <<>>
  ELSE IF trim(Head(ls)) # <<>> THEN <<Head(ls)>> \o SelectLines(Tail(ls))
  ELSE SelectLines(Tail(ls))

Range(f) == {f[k] : k \in DOMAIN f}

(***************************************************************************)
(* IndiewebMappings (csv-mappings.ts): Map<string, string[]> is a function  *)
(* from the keys present to their domain arrays.                            *)
(***************************************************************************)
EmptyMap == <<>>

MapGet(m, key) == IF key \in DOMAIN m THEN m[key] ELSE <<>>

MapSet(m, key, val) ==
  [x \in (DOMAIN m) \cup {key} |-> IF x = key THEN val ELSE m[x]]

s_handle == <<"h","a","n","d","l","e">>

\* The body of the for-loop of load(): the rows of `lines` from position
\* lineNumber on, folded into newMappings.
RECURSIVE parseLines(_, _, _)
parseLines(lines, lineNumber, newMappings) ==
  IF lineNumber > Len(lines) THEN newMappings
  ELSE
    LET line  == lines[lineNumber]
        parts == LET raw == split(line, ",")
                 IN  [k \in 1..Len(raw) |-> trim(raw[k])]
    IN  IF lineNumber = 1 /\ includes(toLowerCase(line), s_handle)
          THEN parseLines(lines, lineNumber + 1, newMappings)
        ELSE IF trim(line) = <<>> \/ startsWith(trim(line), <<"#">>)
          THEN parseLines(lines, lineNumber + 1, newMappings)
        ELSE IF Len(parts) < 2
          THEN parseLines(lines, lineNumber + 1, newMappings)
        ELSE
          LET handle == toLowerCase(parts[1])
              domain == toLowerCase(parts[2])
          IN  IF handle = <<>> \/ domain = <<>>
                THEN parseLines(lines, lineNumber + 1, newMappings)
                ELSE parseLines(lines, lineNumber + 1,
                       MapSet(newMappings, handle,
                              Append(MapGet(newMappings, handle), domain)))

\* The table a readable file of the given content yields.
parseCsv(content) ==
  parseLines(SelectLines(split(content, "\n")), 1, EmptyMap)

\* A mapping file as the fs calls see it: existsSync, readFileSync.
CsvFile(exists, readable, content) ==
  [exists |-> exists, readable |-> readable, content |-> content]

\* "handle,domain / Al.bsky.social, B.io / # c / bad / (blank) / d.me,b.io"
csvA ==
  <<"h","a","n","d","l","e",",","d","o","m","a","i","n","\n",
    "A","l",".","b","s","k","y",".","s","o","c","i","a","l",","," ","B",".","i","o","\n",
    "#"," ","c","\n","b","a","d","\n","\n","d",".","m","e",",","b",".","i","o","\n">>

CsvContents == {csvA}

\* "a.io,b.io / a.io,b.io / a.io,c.io": no header, a row twice.
csvDup ==
  <<"a",".","i","o",",","b",".","i","o","\n",
    "a",".","i","o",",","b",".","i","o","\n",
    "a",".","i","o",",","c",".","i","o","\n">>

\* "handle.me,b.io / d.me,c.io": no header, the first row is a mapping of
\* the handle handle.me.
csvHandle ==
  <<"h","a","n","d","l","e",".","m","e",",","b",".","i","o","\n",
    "d",".","m","e",",","c",".","i","o","\n">>

\* "D.me, C.io": no header, one row.
csvOther == <<"D",".","m","e",","," ","C",".","i","o","\n">>

\* The contents the registry is loaded with on its own.
RegistryContents == CsvContents \cup {csvDup, csvHandle, csvOther}

\* The file is missing, is there but cannot be read (readFileSync throws),
\* or is read with one of the contents.
CsvFiles ==
  {CsvFile(FALSE, FALSE, <<>>), CsvFile(TRUE, FALSE, <<>>)}
    \cup {CsvFile(TRUE, TRUE, c) : c \in CsvContents}

\* parseCsv of each content the model uses, computed once.
parsedCsv == [c \in RegistryContents |-> parseCsv(c)]

RegistryCsvFiles ==
  CsvFiles \cup {CsvFile(TRUE, TRUE, c) : c \in RegistryContents}

\* load() that keeps what it had and adds the rows of the file to it.
load_merge(file, old) ==
  IF ~file.exists THEN EmptyMap
  ELSE IF ~file.readable THEN old
  ELSE parseLines(SelectLines(split(file.content, "\n")), 1, old)

\* load() whose error path drops the table and whose missing-file path
\* keeps it.
load_swapped(file, old) ==
  IF ~file.exists THEN old
  ELSE IF ~file.readable THEN EmptyMap
  ELSE parsedCsv[file.content]

\* IndiewebMappings.load: the table after load() given the file and the
\* table before.
load(file, old) ==
  IF ~file.exists THEN EmptyMap
  ELSE IF ~file.readable THEN old
  ELSE parsedCsv[file.content]

\* What load() writes to the console.
loadMessage(file) ==
  IF ~file.exists THEN "not found"
  ELSE IF ~file.readable THEN "failed"
  ELSE "loaded"

\* IndiewebMappings.getDomainsForHandle
getDomainsForHandle(m, handle) == MapGet(m, toLowerCase(handle))

(***************************************************************************)
(* util/indieweb.ts                                                        *)
(***************************************************************************)
\* One facet's link features, in order (features that are not links, such
\* as mentions, contribute nothing).
RECURSIVE featureLinks(_)
featureLinks(features) ==
  IF features = <<>> THEN <<>>
  ELSE (IF Head(features).isLink THEN <<Head(features).uri>> ELSE <<>>)
         \o featureLinks(Tail(features))

RECURSIVE facetLinks(_)
facetLinks(facets) ==
  IF facets = <<>> THEN <<>>
  ELSE featureLinks(Head(facets)) \o facetLinks(Tail(facets))

\* extractAllLinks: facet links first, then the external embed's uri.
extractAllLinks(record) ==
  facetLinks(record.facets)
    \o (IF record.embed.isExternal THEN <<record.embed.uri>> ELSE <<>>)

s_https == <<"h","t","t","p","s",":","/","/">>

\* new URL(url): an absolute https URL with a host parses, its hostname is
\* what stands between the scheme and the first "/"; anything else throws.
urlParses(url) ==
  /\ startsWith(url, s_https)
  /\ Head(split(SubSeq(url, Len(s_https) + 1, Len(url)), "/")) # <<>>

\* getDomainFromUrl: [ok |-> FALSE] stands for null.
getDomainFromUrl(url) ==
  IF urlParses(url)
    THEN [ok |-> TRUE,
          domain |-> toLowerCase(
            Head(split(SubSeq(url, Len(s_https) + 1, Len(url)), "/")))]
    ELSE [ok |-> FALSE, domain |-> <<>>]

(***************************************************************************)
(* subscription.ts                                                         *)
(***************************************************************************)
s_at == <<"a","t",":","/","/">>

s_bsky_social == <<".","b","s","k","y",".","s","o","c","i","a","l">>

s_alf == <<"a","l","f">>

\* What didResolver.resolve(did) can do: throw, return null, or return a
\* document with its alsoKnownAs list (empty when absent).
Resolution(kind, alsoKnownAs) == [kind |-> kind, alsoKnownAs |-> alsoKnownAs]

\* getHandleFromDid: [ok |-> FALSE] stands for null.
getHandleFromDid(res) ==
  IF res.kind # "doc" THEN [ok |-> FALSE, handle |-> <<>>]
  ELSE IF res.alsoKnownAs = <<>> THEN [ok |-> FALSE, handle |-> <<>>]
  ELSE IF Head(res.alsoKnownAs) = <<>> THEN [ok |-> FALSE, handle |-> <<>>]
  ELSE [ok |-> TRUE, handle |-> replace(Head(res.alsoKnownAs), s_at)]

\* Check 1 of the link loop: direct handle match.
directMatch(handle, domain) ==
  /\ ~endsWith(handle, s_bsky_social)
  /\ toLowerCase(domain) = toLowerCase(handle)

\* Check 2 of the link loop: CSV mapping match.
csvMatch(csvMappedDomains, domain) ==
  \E k \in DOMAIN csvMappedDomains : csvMappedDomains[k] = toLowerCase(domain)

\* The link loop that gives up at the first link it cannot parse.
RECURSIVE hasMatch_stop_at_bad(_, _, _)
hasMatch_stop_at_bad(links, handle, csvMappedDomains) ==
  IF links = <<>> THEN FALSE
  ELSE LET d == getDomainFromUrl(Head(links))
       IN  IF ~d.ok \/ d.domain = <<>> THEN FALSE
           ELSE IF directMatch(handle, d.domain) THEN TRUE
           ELSE IF csvMatch(csvMappedDomains, d.domain) THEN TRUE
           ELSE hasMatch_stop_at_bad(Tail(links), handle, csvMappedDomains)

\* The link loop of handleEvent: the value of hasMatch when it ends.
RECURSIVE hasMatch(_, _, _)
hasMatch(links, handle, csvMappedDomains) ==
  IF links = <<>> THEN FALSE
  ELSE LET d == getDomainFromUrl(Head(links))
       IN  IF ~d.ok \/ d.domain = <<>>
             THEN hasMatch(Tail(links), handle, csvMappedDomains)
           ELSE IF directMatch(handle, d.domain) THEN TRUE
           ELSE IF csvMatch(csvMappedDomains, d.domain) THEN TRUE
           ELSE hasMatch(Tail(links), handle, csvMappedDomains)

\* The keyword filter of the post branch.
isAlf(create) == includes(toLowerCase(create.record.text), s_alf)

\* The keyword filter that lets through only the posts without links.
RECURSIVE alfRows_unlinked(_, _)
alfRows_unlinked(creates, time) ==
  IF creates = <<>> THEN <<>>
  ELSE (IF isAlf(Head(creates))
             /\ Len(extractAllLinks(Head(creates).record)) = 0
          THEN <<[uri |-> Head(creates).uri, cid |-> Head(creates).cid,
                  indexedAt |-> time]>>
          ELSE <<>>) \o alfRows_unlinked(Tail(creates), time)

\* ops.posts.creates filtered and mapped to rows of the post table.
RECURSIVE alfRows(_, _)
alfRows(creates, time) ==
  IF creates = <<>> THEN <<>>
  ELSE (IF isAlf(Head(creates))
          THEN <<[uri |-> Head(creates).uri, cid |-> Head(creates).cid,
                  indexedAt |-> time]>>
          ELSE <<>>) \o alfRows(Tail(creates), time)

\* The row pushed with the resolved handle in its author column.
indiewebRow_handle(create, handle, time) ==
  [uri |-> create.uri, cid |-> create.cid, author |-> handle,
   indexedAt |-> time]

\* The row pushed onto indiewebPostsToCreate.
indiewebRow(create, handle, time) ==
  [uri |-> create.uri, cid |-> create.cid, author |-> create.author,
   indexedAt |-> time]

(***************************************************************************)
(* The store: a table is the set of its rows.                              *)
(***************************************************************************)
hasUri(table, uri) == \E r \in table : r.uri = uri

\* deleteFrom(table).where('uri', 'in', uris); skipped for an empty list
deleteFrom(table, uris) ==
  IF Len(uris) > 0 THEN {r \in table : r.uri \notin Range(uris)} ELSE table

\* insertInto with the conflict clause dropped.
RECURSIVE insertInto_no_conflict(_, _)
insertInto_no_conflict(table, rows) ==
  IF rows = <<>> THEN table
  ELSE insertInto_no_conflict(table \cup {Head(rows)}, Tail(rows))

\* insertInto with the conflict resolved by overwriting.
RECURSIVE insertInto_replace(_, _)
insertInto_replace(table, rows) ==
  IF rows = <<>> THEN table
  ELSE insertInto_replace(
         {r \in table : r.uri # Head(rows).uri} \cup {Head(rows)}, Tail(rows))

\* insertInto(table).values(rows).onConflict(doNothing): rows are taken in
\* order, a row whose uri is present (already, or from an earlier row of
\* the same statement) is dropped.
RECURSIVE insertInto(_, _)
insertInto(table, rows) ==
  IF rows = <<>> THEN table
  ELSE insertInto(IF hasUri(table, Head(rows).uri) THEN table
                  ELSE table \cup {Head(rows)}, Tail(rows))

(***************************************************************************)
(* The inputs the model draws from.                                        *)
(***************************************************************************)
MaxCreates == 2

MaxDeletes == 1

MaxClock == 1

URIs == {"u1", "u2"}

did1 == <<"d","i","d",":","1">>

did2 == <<"d","i","d",":","2">>

Mention == [isLink |-> FALSE, uri |-> <<>>]

Link(uri) == [isLink |-> TRUE, uri |-> uri]

NoEmbed == [isExternal |-> FALSE, uri |-> <<>>]

External(uri) == [isExternal |-> TRUE, uri |-> uri]

\* Facets: a mention, a link "nope" that does not parse, a link
\* https://AL.bsky.social/x; the card: https://B.io/x
linkFacets ==
  << <<Mention, Link(<<"n","o","p","e">>)>>,
     <<Link(<<"h","t","t","p","s",":","/","/","A","L",".","b","s","k","y",
              ".","s","o","c","i","a","l","/","x">>)>> >>

linkCard == External(<<"h","t","t","p","s",":","/","/","B",".","i","o","/","x">>)

\* "Alf" with the links
recAlfLinks ==
  [text |-> <<"A","l","f">>, facets |-> linkFacets, embed |-> linkCard]

\* "hi" with the links
recLinks ==
  [text |-> <<"h","i">>, facets |-> linkFacets, embed |-> linkCard]

\* "xalf": a mention only, no card
recAlfNoLinks ==
  [text |-> <<"x","a","l","f">>, facets |-> << <<Mention>> >>,
   embed |-> NoEmbed]

Create(uri, cid, author, record) ==
  [uri |-> uri, cid |-> cid, author |-> author, record |-> record]

Creates ==
  {Create("u1", "c1", did1, recAlfLinks),
   Create("u2", "c2", did2, recLinks),
   Create("u2", "c3", did1, recAlfNoLinks)}

SeqsUpTo(S, n) == UNION {[1..k -> S] : k \in 0..n}

\* A decoded firehose event: commit or not, and ops.posts of getOpsByType.
Events ==
  {[commit |-> FALSE, creates |-> <<>>, deletes |-> <<>>]}
    \cup {[commit |-> TRUE, creates |-> c, deletes |-> d] :
            c \in SeqsUpTo(Creates, MaxCreates),
            d \in SeqsUpTo(URIs, MaxDeletes)}

NoOps == [creates |-> <<>>, deletes |-> <<>>]

MaxStream == 3

MaxCrashes == 1

MaxStarts == 2

CheckpointInterval == 2

\* The events of a recorded stream: commits that create a post with links,
\* delete a post, or create and delete the same post.
StreamEvents ==
  {e \in Events :
     /\ e.commit
     /\ Len(e.creates) <= 1 /\ Len(e.deletes) <= 1
     /\ Len(e.creates) + Len(e.deletes) >= 1
     /\ \A k \in DOMAIN e.creates : Len(extractAllLinks(e.creates[k].record)) > 0
     /\ (Len(e.creates) = 1 /\ Len(e.deletes) = 1)
          => e.creates[1].uri = e.deletes[1] /\ isAlf(e.creates[1])}

\* alsoKnownAs entries: at://b.io, at://D.me, at://al.bsky.social,
\* Al.Bsky.Social (no prefix), and the bare prefix at://
Aliases ==
  {<<"a","t",":","/","/","b",".","i","o">>,
   <<"a","t",":","/","/","D",".","m","e">>,
   <<"a","t",":","/","/","a","l",".","b","s","k","y",".","s","o","c","i","a","l">>,
   <<"A","l",".","B","s","k","y",".","S","o","c","i","a","l">>,
   s_at}

Resolutions ==
  {Resolution("throws", <<>>), Resolution("null", <<>>),
   Resolution("doc", <<>>)}
    \cup {Resolution("doc", <<a>>) : a \in Aliases}
    \cup {Resolution("doc", <<<<"a","t",":","/","/","b",".","i","o">>,
                              <<"A","l",".","B","s","k","y",".","S","o","c","i","a","l">>>>)}

DIDs == {did1, did2}

\* Directories whose answers do not change: did1 is b.io and did2 is
\* al.bsky.social; or did1 cannot be resolved and did2 is Al.Bsky.Social.
Directories ==
  {[d \in DIDs |->
      IF d = did1
        THEN Resolution("doc", <<<<"a","t",":","/","/","b",".","i","o">>>>)
        ELSE Resolution("doc", <<<<"a","t",":","/","/","a","l",".","b","s","k","y",
                                   ".","s","o","c","i","a","l">>>>)],
   [d \in DIDs |->
      IF d = did1
        THEN Resolution("throws", <<>>)
        ELSE Resolution("doc", <<<<"A","l",".","B","s","k","y",".","S","o","c","i","a","l">>>>)]}

NoDirectory == [d \in DIDs |-> Resolution("null", <<>>)]

(***************************************************************************)
(* State.                                                                  *)
(***************************************************************************)
VARIABLES
  post,                   \* table post: rows (uri, cid, indexedAt)
  indieweb_post,          \* table indieweb_post: rows (uri, cid, author, indexedAt)
  mappings,               \* IndiewebMappings.mappings
  reloadTimer,            \* IndiewebMappings.reloadTimer is set
  intervals,              \* the intervals setInterval armed and nothing cleared
  evicted,                \* history: the last load() succeeded and took a
                          \*   handle out of the table
  csvFile,                \* the mapping file on disk
  console,                \* what the last load() logged ("" before any load)
  now,                    \* the clock read by new Date()
  pc,                     \* where the subscription is
  ops,                    \* ops.posts of the event being handled
  postsToCreate,          \* handleEvent's local
  i,                      \* position of the for-loop over ops.posts.creates
  indiewebPostsToCreate,  \* handleEvent's local
  resolverCalls,          \* history: positions for which the resolver was called
  stagedFrom,             \* history: position each staged row was pushed for
  lookup,                 \* history: the last getHandleFromDid result, the table
                          \*   it was looked up in and what the lookup returned
  reloaded,               \* history: a load() changed the table during the await
  storeCalls,             \* history: the statements handleEvent has executed
  sub_state,              \* table sub_state: the cursor of the one service row
  cursor,                 \* the subscription's position in the stream
  stream,                 \* the recorded stream the transport replays
  didDocs,                \* the directory the resolver answers from
  seen,                   \* history: the events whose handling has begun
  crashLog                \* history: the cursor and pc at each crash

vars ==
  <<post, indieweb_post, mappings, reloadTimer, intervals, evicted, csvFile,
    console, now, pc, ops, postsToCreate, i, indiewebPostsToCreate,
    resolverCalls, stagedFrom, lookup, reloaded, storeCalls, sub_state,
    cursor, stream, didDocs, seen, crashLog>>

runVars == <<sub_state, cursor, stream, didDocs, seen, crashLog>>

registryVars == <<mappings, reloadTimer, intervals, evicted, console>>

eventVars ==
  <<ops, postsToCreate, i, indiewebPostsToCreate, resolverCalls, stagedFrom,
    lookup, reloaded, storeCalls>>

NoLookup ==
  [made |-> FALSE, index |-> 0, ok |-> FALSE, handle |-> <<>>,
   table |-> EmptyMap, csvMappedDomains |-> <<>>]

InitProcess ==
  /\ post = {}
  /\ indieweb_post = {}
  /\ mappings = EmptyMap
  /\ reloadTimer = FALSE
  /\ intervals = 0
  /\ evicted = FALSE
  /\ console = ""
  /\ now = 0
  /\ pc = "created"
  /\ ops = NoOps
  /\ postsToCreate = <<>>
  /\ i = 1
  /\ indiewebPostsToCreate = <<>>
  /\ resolverCalls = <<>>
  /\ stagedFrom = <<>>
  /\ lookup = NoLookup
  /\ reloaded = FALSE
  /\ storeCalls = <<>>
  /\ sub_state = 0
  /\ cursor = 0
  /\ seen = 0
  /\ crashLog = <<>>

\* The live firehose: events arrive as they come, the resolver answers as
\* it will, the mapping file changes under the process.
Init ==
  /\ InitProcess
  /\ csvFile \in CsvFiles
  /\ stream = <<>>
  /\ didDocs = NoDirectory

(***************************************************************************)
(* Environment: the mapping file.                                          *)
(***************************************************************************)
WriteCsv ==
  /\ UNCHANGED runVars
  /\ \E f \in CsvFiles \ {csvFile} : csvFile' = f
  /\ UNCHANGED <<post, indieweb_post, registryVars, now, pc, eventVars>>

\* The file of a registry that is used on its own.
WriteRegistryCsv ==
  /\ UNCHANGED runVars
  /\ \E f \in RegistryCsvFiles \ {csvFile} : csvFile' = f
  /\ UNCHANGED <<post, indieweb_post, registryVars, now, pc, eventVars>>

(***************************************************************************)
(* IndiewebMappings                                                        *)
(***************************************************************************)
\* load(): the table, what is logged, and whether a handle left the table.
loadNow ==
  /\ mappings' = load(csvFile, mappings)
  /\ console' = loadMessage(csvFile)
  /\ evicted' = /\ csvFile.exists /\ csvFile.readable
                /\ \E h \in DOMAIN mappings : h \notin DOMAIN mappings'

\* start(): the first load(), then setInterval, whose handle replaces the
\* one reloadTimer held.  load() has no await in it, so nothing runs
\* between the two.
startNow ==
  /\ loadNow
  /\ reloadTimer' = TRUE
  /\ intervals' = intervals + 1

\* start(), awaited by FeedGenerator.start before the firehose runs.
IndiewebMappingsStart ==
  /\ UNCHANGED runVars
  /\ pc = "created"
  /\ startNow
  /\ pc' = "started"
  /\ UNCHANGED <<post, indieweb_post, csvFile, now, eventVars>>

\* start() called on a registry that is used on its own.
start ==
  /\ pc = "created"
  /\ intervals < MaxStarts
  /\ startNow
  /\ UNCHANGED <<post, indieweb_post, csvFile, now, pc, eventVars, runVars>>

\* stop(): clearInterval of the handle reloadTimer holds, if it holds one.
stop ==
  /\ pc = "created"
  /\ IF reloadTimer
       THEN /\ intervals' = intervals - 1
            /\ reloadTimer' = FALSE
       ELSE UNCHANGED <<intervals, reloadTimer>>
  /\ UNCHANGED <<post, indieweb_post, mappings, evicted, console, csvFile,
                 now, pc, eventVars, runVars>>

\* A reload that empties indieweb_post when it changes the table.
TimerLoad_purge ==
  /\ UNCHANGED runVars
  /\ intervals > 0
  /\ loadNow
  /\ reloaded' = (reloaded \/ (pc = "resolve" /\ mappings' # mappings))
  /\ indieweb_post' = IF mappings' # mappings THEN {} ELSE indieweb_post
  /\ UNCHANGED <<post, reloadTimer, intervals, csvFile, now,
                 pc, ops, postsToCreate, i, indiewebPostsToCreate,
                 resolverCalls, stagedFrom, lookup, storeCalls>>

\* The callback of an interval that is armed: load().  load() has no await
\* in it (existsSync and readFileSync are synchronous), so it runs to its
\* end in one turn of the event loop.
TimerLoad ==
  /\ UNCHANGED runVars
  /\ intervals > 0
  /\ loadNow
  /\ reloaded' = (reloaded \/ (pc = "resolve" /\ mappings' # mappings))
  /\ UNCHANGED <<post, indieweb_post, reloadTimer, intervals, csvFile, now,
                 pc, ops, postsToCreate, i, indiewebPostsToCreate,
                 resolverCalls, stagedFrom, lookup, storeCalls>>

(***************************************************************************)
(* FirehoseSubscription                                                    *)
(***************************************************************************)
\* FeedGenerator.start that does not await indiewebMappings.start(): the
\* firehose runs before the first load().
FirehoseRun_unawaited ==
  /\ pc \in {"created", "started"}
  /\ pc' = "idle"
  /\ cursor' = sub_state
  /\ UNCHANGED <<post, indieweb_post, registryVars, csvFile, now, eventVars,
                 sub_state, stream, didDocs, seen, crashLog>>

\* FeedGenerator.start: this.firehose.run(...); the subscription resumes
\* from the cursor of its sub_state row.
FirehoseRun ==
  /\ pc = "started"
  /\ pc' = "idle"
  /\ cursor' = sub_state
  /\ UNCHANGED <<post, indieweb_post, registryVars, csvFile, now, eventVars,
                 sub_state, stream, didDocs, seen, crashLog>>

\* handleEvent(evt) up to its first store call: isCommit, getOpsByType, the
\* keyword filter.
begin(evt) ==
  /\ IF ~evt.commit
       THEN /\ pc' = "done"
            /\ ops' = NoOps
            /\ postsToCreate' = <<>>
       ELSE /\ pc' = "deletePost"
            /\ ops' = [creates |-> evt.creates, deletes |-> evt.deletes]
            /\ postsToCreate' = alfRows(evt.creates, now)
  /\ i' = 1
  /\ indiewebPostsToCreate' = <<>>
  /\ resolverCalls' = <<>>
  /\ stagedFrom' = <<>>
  /\ lookup' = NoLookup
  /\ reloaded' = FALSE
  /\ storeCalls' = <<>>
  /\ UNCHANGED <<post, indieweb_post, registryVars, csvFile, now>>

\* An event of the live firehose is handled.
handleEvent ==
  /\ pc = "idle"
  /\ \E evt \in Events : begin(evt)
  /\ UNCHANGED runVars

\* The next event of the recorded stream is handled.
runNext ==
  /\ pc = "idle"
  /\ cursor < Len(stream)
  /\ begin(stream[cursor + 1])
  /\ seen' = IF cursor + 1 > seen THEN cursor + 1 ELSE seen
  /\ UNCHANGED <<sub_state, cursor, stream, didDocs, crashLog>>

\* handleEvent's locals.
handlerLocals ==
  <<ops, postsToCreate, i, indiewebPostsToCreate, resolverCalls, stagedFrom,
    lookup, reloaded>>

\* The statement `op` on `table` has been executed: a statement is built
\* and executed only for a list that is not empty.
executed(table, op, list) ==
  storeCalls' = IF Len(list) > 0 THEN Append(storeCalls, <<table, op>>)
                ELSE storeCalls

\* The handler without the delete on the post table.
deletePost_absent ==
  /\ UNCHANGED runVars
  /\ pc = "deletePost"
  /\ pc' = "insertPost"
  /\ UNCHANGED <<post, indieweb_post, registryVars, csvFile, now, eventVars>>

\* The delete on post without its where clause.
deletePost_all ==
  /\ UNCHANGED runVars
  /\ pc = "deletePost"
  /\ post' = IF Len(ops.deletes) > 0 THEN {} ELSE post
  /\ executed("post", "delete", ops.deletes)
  /\ pc' = "insertPost"
  /\ UNCHANGED <<indieweb_post, registryVars, csvFile, now, handlerLocals>>

deletePost ==
  /\ UNCHANGED runVars
  /\ pc = "deletePost"
  /\ post' = deleteFrom(post, ops.deletes)
  /\ executed("post", "delete", ops.deletes)
  /\ pc' = "insertPost"
  /\ UNCHANGED <<indieweb_post, registryVars, csvFile, now, handlerLocals>>

\* The insert that leaves out the uris the same event deletes.
insertPost_skip_deleted ==
  /\ UNCHANGED runVars
  /\ pc = "insertPost"
  /\ post' = insertInto(post, SelectSeq(postsToCreate,
                 LAMBDA r : r.uri \notin Range(ops.deletes)))
  /\ executed("post", "insert", postsToCreate)
  /\ pc' = "classify"
  /\ UNCHANGED <<indieweb_post, registryVars, csvFile, now, handlerLocals>>

\* The insert on post followed by the delete of the event's deletes.
insertPost_then_delete ==
  /\ UNCHANGED runVars
  /\ pc = "insertPost"
  /\ post' = deleteFrom(IF Len(postsToCreate) > 0
                          THEN insertInto(post, postsToCreate) ELSE post,
                        ops.deletes)
  /\ storeCalls' =
       (IF Len(postsToCreate) > 0
          THEN Append(storeCalls, <<"post", "insert">>) ELSE storeCalls)
         \o (IF Len(ops.deletes) > 0 THEN <<<<"post", "delete">>>> ELSE <<>>)
  /\ pc' = "classify"
  /\ UNCHANGED <<indieweb_post, registryVars, csvFile, now, handlerLocals>>

insertPost ==
  /\ UNCHANGED runVars
  /\ pc = "insertPost"
  /\ post' = IF Len(postsToCreate) > 0 THEN insertInto(post, postsToCreate)
             ELSE post
  /\ executed("post", "insert", postsToCreate)
  /\ pc' = "classify"
  /\ UNCHANGED <<indieweb_post, registryVars, csvFile, now, handlerLocals>>

\* The head of the for-loop without the guard on links.length.
classifyNext_no_guard ==
  /\ UNCHANGED runVars
  /\ pc = "classify"
  /\ IF i > Len(ops.creates)
       THEN /\ pc' = "deleteIndieweb"
            /\ UNCHANGED <<i, resolverCalls>>
       ELSE /\ pc' = "resolve"
            /\ resolverCalls' = Append(resolverCalls, i)
            /\ UNCHANGED i
  /\ lookup' = NoLookup
  /\ reloaded' = FALSE
  /\ UNCHANGED <<post, indieweb_post, registryVars, csvFile, now, ops,
                 postsToCreate, indiewebPostsToCreate, stagedFrom,
                 storeCalls>>

\* The head of the for-loop: the end of the loop, a post without links
\* (continue), or the call of the resolver.
classifyNext ==
  /\ UNCHANGED runVars
  /\ pc = "classify"
  /\ IF i > Len(ops.creates)
       THEN /\ pc' = "deleteIndieweb"
            /\ UNCHANGED <<i, resolverCalls>>
       ELSE IF Len(extractAllLinks(ops.creates[i].record)) = 0
         THEN /\ i' = i + 1
              /\ UNCHANGED <<pc, resolverCalls>>
         ELSE /\ pc' = "resolve"
              /\ resolverCalls' = Append(resolverCalls, i)
              /\ UNCHANGED i
  /\ lookup' = NoLookup
  /\ reloaded' = FALSE
  /\ UNCHANGED <<post, indieweb_post, registryVars, csvFile, now, ops,
                 postsToCreate, indiewebPostsToCreate, stagedFrom,
                 storeCalls>>

\* The loop body when a failed resolution is not caught: the handler
\* rejects and what is left of it does not run.
resolvedWith_raise(res) ==
  /\ LET h == getHandleFromDid(res)
     IN  IF ~h.ok \/ h.handle = <<>>
           THEN /\ lookup' = [made |-> TRUE, index |-> i, ok |-> FALSE,
                              handle |-> <<>>, table |-> EmptyMap,
                              csvMappedDomains |-> <<>>]
                /\ pc' = "done"
                /\ UNCHANGED <<i, indiewebPostsToCreate, stagedFrom>>
           ELSE /\ lookup' = [made |-> TRUE, index |-> i, ok |-> TRUE,
                              handle |-> h.handle, table |-> mappings,
                              csvMappedDomains |->
                                getDomainsForHandle(mappings, h.handle)]
                /\ IF hasMatch(extractAllLinks(ops.creates[i].record),
                               h.handle,
                               getDomainsForHandle(mappings, h.handle))
                     THEN /\ indiewebPostsToCreate' =
                               Append(indiewebPostsToCreate,
                                      indiewebRow(ops.creates[i], h.handle, now))
                          /\ stagedFrom' = Append(stagedFrom, i)
                     ELSE UNCHANGED <<indiewebPostsToCreate, stagedFrom>>
                /\ i' = i + 1
                /\ pc' = "classify"
  /\ UNCHANGED <<post, indieweb_post, registryVars, csvFile, now, ops,
                 postsToCreate, resolverCalls, reloaded, storeCalls,
                 runVars>>

\* The resolver has answered res: the rest of the loop body, which has no
\* await.
resolvedWith(res) ==
  /\ LET create == ops.creates[i]
           links  == extractAllLinks(create.record)
           h      == getHandleFromDid(res)
       IN  IF ~h.ok \/ h.handle = <<>>
             THEN /\ lookup' = [made |-> TRUE, index |-> i, ok |-> FALSE,
                                handle |-> <<>>, table |-> EmptyMap,
                                csvMappedDomains |-> <<>>]
                  /\ UNCHANGED <<indiewebPostsToCreate, stagedFrom>>
             ELSE LET csvMappedDomains ==
                        getDomainsForHandle(mappings, h.handle)
                  IN  /\ lookup' = [made |-> TRUE, index |-> i, ok |-> TRUE,
                                    handle |-> h.handle, table |-> mappings,
                                    csvMappedDomains |-> csvMappedDomains]
                      /\ IF hasMatch(links, h.handle, csvMappedDomains)
                           THEN /\ indiewebPostsToCreate' =
                                     Append(indiewebPostsToCreate,
                                            indiewebRow(create, h.handle, now))
                                /\ stagedFrom' = Append(stagedFrom, i)
                           ELSE UNCHANGED <<indiewebPostsToCreate, stagedFrom>>
  /\ i' = i + 1
  /\ pc' = "classify"
  /\ UNCHANGED <<post, indieweb_post, registryVars, csvFile, now, ops,
                 postsToCreate, resolverCalls, reloaded, storeCalls,
                 runVars>>

\* The live resolver answers.
resolved ==
  /\ pc = "resolve"
  /\ \E res \in Resolutions : resolvedWith(res)

\* The resolver answers from the directory.
resolvedFromDirectory ==
  /\ pc = "resolve"
  /\ resolvedWith(didDocs[ops.creates[i].author])

deleteIndieweb ==
  /\ UNCHANGED runVars
  /\ pc = "deleteIndieweb"
  /\ indieweb_post' = deleteFrom(indieweb_post, ops.deletes)
  /\ executed("indieweb_post", "delete", ops.deletes)
  /\ pc' = "insertIndieweb"
  /\ UNCHANGED <<post, registryVars, csvFile, now, handlerLocals>>

insertIndieweb ==
  /\ UNCHANGED runVars
  /\ pc = "insertIndieweb"
  /\ indieweb_post' =
       IF Len(indiewebPostsToCreate) > 0
         THEN insertInto(indieweb_post, indiewebPostsToCreate)
         ELSE indieweb_post
  /\ executed("indieweb_post", "insert", indiewebPostsToCreate)
  /\ pc' = "done"
  /\ UNCHANGED <<post, registryVars, csvFile, now, handlerLocals>>

\* handleEvent's promise settles and its locals are gone.  Time passes
\* between two events (the clock stops at MaxClock).
settle ==
  /\ pc' = "idle"
  /\ ops' = NoOps
  /\ postsToCreate' = <<>>
  /\ i' = 1
  /\ indiewebPostsToCreate' = <<>>
  /\ resolverCalls' = <<>>
  /\ stagedFrom' = <<>>
  /\ lookup' = NoLookup
  /\ reloaded' = FALSE
  /\ storeCalls' = <<>>
  /\ now' = IF now < MaxClock THEN now + 1 ELSE now
  /\ UNCHANGED <<post, indieweb_post, registryVars, csvFile>>

\* The live firehose takes the next event.
handleEventReturn ==
  /\ pc = "done"
  /\ settle
  /\ UNCHANGED runVars

\* The run loop after an event of the recorded stream: the position moves
\* on and every CheckpointInterval-th position is written to sub_state; the
\* write is best effort (a failed write is logged and the loop goes on).
runAdvance ==
  /\ pc = "done"
  /\ settle
  /\ cursor' = cursor + 1
  /\ IF (cursor + 1) % CheckpointInterval = 0
       THEN \E written \in BOOLEAN :
              sub_state' = IF written THEN cursor + 1 ELSE sub_state
       ELSE UNCHANGED sub_state
  /\ UNCHANGED <<stream, didDocs, seen, crashLog>>

\* The process stops and is started again: what is in memory is gone, the
\* store and the files stay.
crash ==
  /\ pc \notin {"created", "started"}
  /\ Len(crashLog) < MaxCrashes
  /\ crashLog' = Append(crashLog, [cursor |-> cursor, pc |-> pc])
  /\ pc' = "created"
  /\ mappings' = EmptyMap
  /\ reloadTimer' = FALSE
  /\ intervals' = 0
  /\ evicted' = FALSE
  /\ console' = ""
  /\ cursor' = 0
  /\ ops' = NoOps
  /\ postsToCreate' = <<>>
  /\ i' = 1
  /\ indiewebPostsToCreate' = <<>>
  /\ resolverCalls' = <<>>
  /\ stagedFrom' = <<>>
  /\ lookup' = NoLookup
  /\ reloaded' = FALSE
  /\ storeCalls' = <<>>
  /\ UNCHANGED <<post, indieweb_post, csvFile, now, sub_state, stream,
                 didDocs, seen>>

Next ==
  \/ WriteCsv
  \/ IndiewebMappingsStart
  \/ TimerLoad
  \/ FirehoseRun
  \/ handleEvent
  \/ deletePost
  \/ insertPost
  \/ classifyNext
  \/ resolved
  \/ deleteIndieweb
  \/ insertIndieweb
  \/ handleEventReturn

Spec == Init /\ [][Next]_vars

\* A recorded stream is replayed: the file and the directory do not change
\* (a timer load() of the unchanged file leaves every variable as it is and
\* is not a step of its own; the file is missing or can be read), the
\* process may crash and is restarted.
InitResume ==
  /\ InitProcess
  /\ csvFile \in {f \in CsvFiles : f.exists = f.readable}
  /\ stream \in [1..MaxStream -> StreamEvents]
  /\ didDocs \in Directories

NextResume ==
  \/ IndiewebMappingsStart
  \/ FirehoseRun
  \/ runNext
  \/ deletePost
  \/ insertPost
  \/ classifyNext
  \/ resolvedFromDirectory
  \/ deleteIndieweb
  \/ insertIndieweb
  \/ runAdvance
  \/ crash

SpecResume == InitResume /\ [][NextResume]_vars

\* A recorded stream is handled while the file changes and the timer
\* reloads it; the directory does not change.
MaxReloadStream == 3

InitReload ==
  /\ InitProcess
  /\ csvFile \in CsvFiles
  /\ stream \in [1..MaxReloadStream -> StreamEvents]
  /\ didDocs \in Directories

NextReload ==
  \/ WriteCsv
  \/ IndiewebMappingsStart
  \/ TimerLoad
  \/ FirehoseRun
  \/ runNext
  \/ deletePost
  \/ insertPost
  \/ classifyNext
  \/ resolvedFromDirectory
  \/ deleteIndieweb
  \/ insertIndieweb
  \/ runAdvance

SpecReload == InitReload /\ [][NextReload]_vars

\* The registry on its own: start() and stop() are called in any order,
\* the armed intervals fire, the file changes.
InitRegistry ==
  /\ InitProcess
  /\ csvFile \in RegistryCsvFiles
  /\ stream = <<>>
  /\ didDocs = NoDirectory

NextRegistry ==
  \/ WriteRegistryCsv
  \/ start
  \/ stop
  \/ TimerLoad

SpecRegistry == InitRegistry /\ [][NextRegistry]_vars

(***************************************************************************)
(* Properties.                                                             *)
(***************************************************************************)
UniqueUri(table) == \A r1 \in table, r2 \in table : r1.uri = r2.uri => r1 = r2

RowsKept(old, new) == \A r \in old : hasUri(new, r.uri) => r \in new

createdUris == {ops.creates[k].uri : k \in DOMAIN ops.creates}

linksOf(k) == extractAllLinks(ops.creates[k].record)

\* C1: each table holds at most one row per uri in every reachable state,
\* and no step replaces the row of a uri that keeps a row: an insert of a
\* uri that is present leaves cid, author and indexedAt as they were.
C1_OneRowPerUriKept ==
  /\ [](UniqueUri(post) /\ UniqueUri(indieweb_post))
  /\ [][RowsKept(post, post') /\ RowsKept(indieweb_post, indieweb_post')]_vars

\* A creation was delivered again: handleEvent has finished, a staged row
\* of each table met an older row of its uri, and the older row is there.
C1_Witness ==
  /\ pc = "done"
  /\ \E k \in DOMAIN postsToCreate : \E r \in post :
       r.uri = postsToCreate[k].uri /\ r.indexedAt < postsToCreate[k].indexedAt
  /\ \E k \in DOMAIN indiewebPostsToCreate : \E r \in indieweb_post :
       /\ r.uri = indiewebPostsToCreate[k].uri
       /\ r.indexedAt < indiewebPostsToCreate[k].indexedAt

\* C2 as stated: after handleEvent has finished, a uri that the event both
\* creates and deletes has no row in either table.
C2_CreateDeleteLeavesNoRow ==
  pc = "done" =>
    \A u \in Range(ops.deletes) \cap createdUris :
      ~hasUri(post, u) /\ ~hasUri(indieweb_post, u)

\* C2 amended: the deletes are applied before the inserts, so after
\* handleEvent has finished a uri that the event both creates and deletes
\* has a row in post exactly if one of its creates passes the keyword
\* filter, and a row in indieweb_post exactly if one of its creates was
\* staged by the classifier.
C2_CreateDeleteKeepsCreate ==
  pc = "done" =>
    \A u \in Range(ops.deletes) \cap createdUris :
      /\ hasUri(post, u) <=>
           \E k \in DOMAIN ops.creates :
             ops.creates[k].uri = u /\ isAlf(ops.creates[k])
      /\ hasUri(indieweb_post, u) <=>
           \E k \in DOMAIN indiewebPostsToCreate :
             indiewebPostsToCreate[k].uri = u

\* An event that creates and deletes the same uri has been handled and the
\* uri has a row in both tables.
C2_Witness ==
  /\ pc = "done"
  /\ \E u \in Range(ops.deletes) \cap createdUris :
       hasUri(post, u) /\ hasUri(indieweb_post, u)

\* C3: after handleEvent has finished, a uri the event deletes and does not
\* create has no row in post and no row in indieweb_post.
C3_DeletedFromBoth ==
  pc = "done" =>
    \A u \in Range(ops.deletes) \ createdUris :
      ~hasUri(post, u) /\ ~hasUri(indieweb_post, u)

\* An event that deletes one uri and creates the other has been handled:
\* the other uri has its rows, the deleted one has none.
C3_Witness ==
  /\ pc = "done"
  /\ \E u \in Range(ops.deletes) \ createdUris :
       /\ ~hasUri(post, u) /\ ~hasUri(indieweb_post, u)
       /\ \E v \in URIs \ {u} : hasUri(post, v) /\ hasUri(indieweb_post, v)

RuleA(handle, d) ==
  d = toLowerCase(handle) /\ ~endsWith(handle, s_bsky_social)

RuleB(table, handle, d) ==
  \E key \in DOMAIN table :
    key = toLowerCase(handle) /\ d \in Range(table[key])

C6_SharedHandleNeverAdmitted ==
  (/\ lookup.made /\ lookup.ok
   /\ endsWith(toLowerCase(lookup.handle), s_bsky_social)
   /\ toLowerCase(lookup.handle) \notin DOMAIN lookup.table)
    => lookup.index \notin Range(stagedFrom)

\* The tables a load() of one file yields, and the empty table.
CompleteTables == {EmptyMap} \cup {parseCsv(c) : c \in CsvContents}

\* C7: the table a lookup is made in is the empty table or the table of
\* one whole file, and the lookup returns that table's list for the handle.
C7_LookupSeesWholeTable ==
  (lookup.made /\ lookup.ok) =>
    /\ lookup.table \in CompleteTables
    /\ lookup.csvMappedDomains =
         (IF toLowerCase(lookup.handle) \in DOMAIN lookup.table
            THEN lookup.table[toLowerCase(lookup.handle)] ELSE <<>>)

\* A load() changed the table while handleEvent waited for the resolver,
\* and the lookup made after it returned domains.
C7_Witness ==
  /\ lookup.made /\ lookup.ok
  /\ reloaded
  /\ lookup.csvMappedDomains # <<>>

\* C8: within one handleEvent the resolver is called only for creates that
\* have links, at most once for each, and only such creates are staged; so
\* the calls are at most as many as the creates with links.
C8_NoLinksNoResolverCall ==
  /\ \A k \in DOMAIN resolverCalls : Len(linksOf(resolverCalls[k])) > 0
  /\ \A k1 \in DOMAIN resolverCalls, k2 \in DOMAIN resolverCalls :
       k1 < k2 => resolverCalls[k1] < resolverCalls[k2]
  /\ \A k \in DOMAIN stagedFrom : Len(linksOf(stagedFrom[k])) > 0
  /\ Len(resolverCalls) <=
       Cardinality({k \in DOMAIN ops.creates : Len(linksOf(k)) > 0})

\* An event with a post without links and a post with links has been
\* handled with one resolver call.
C8_Witness ==
  /\ pc = "done"
  /\ Len(ops.creates) = 2
  /\ \E k \in DOMAIN ops.creates : Len(linksOf(k)) = 0
  /\ Len(resolverCalls) = 1

RECURSIVE stagedRows(_, _, _)
stagedRows(creates, docs, table) ==
  IF creates = <<>> THEN <<>>
  ELSE
    LET create == Head(creates)
        links  == extractAllLinks(create.record)
        h      == getHandleFromDid(docs[create.author])
        admit  == /\ Len(links) > 0
                  /\ h.ok /\ h.handle # <<>>
                  /\ hasMatch(links, h.handle,
                              getDomainsForHandle(table, h.handle))
    IN  (IF admit THEN <<indiewebRow(create, h.handle, 0)>> ELSE <<>>)
          \o stagedRows(Tail(creates), docs, table)

\* Both tables after one event handled from beginning to end.
eventEffect(tables, evt, docs, table) ==
  IF ~evt.commit THEN tables
  ELSE [post |->
          insertInto(deleteFrom(tables.post, evt.deletes),
                     alfRows(evt.creates, 0)),
        indieweb_post |->
          insertInto(deleteFrom(tables.indieweb_post, evt.deletes),
                     stagedRows(evt.creates, docs, table))]

\* Both tables after the first k events of the stream, handled one after
\* the other by a process that never stopped.
RECURSIVE runWithoutCrash(_)
runWithoutCrash(k) ==
  IF k = 0 THEN [post |-> {}, indieweb_post |-> {}]
  ELSE eventEffect(runWithoutCrash(k - 1), stream[k], didDocs,
                   load(csvFile, EmptyMap))

uris(table) == {r.uri : r \in table}

\* C10: whenever the subscription is between two events and every event
\* whose handling ever began has been handled to its end (after a crash:
\* the events since the flushed cursor have been handled again), each table
\* holds exactly the uris it holds after the same events in a run that
\* never stopped, each uri once.
C10_ResumeSameUris ==
  (pc = "idle" /\ cursor = seen) =>
    /\ uris(post) = uris(runWithoutCrash(cursor).post)
    /\ uris(indieweb_post) = uris(runWithoutCrash(cursor).indieweb_post)
    /\ UniqueUri(post) /\ UniqueUri(indieweb_post)

\* The process stopped between two events after N events, N not a multiple
\* of the checkpoint interval and beyond the flushed cursor, and has handled
\* the events up to N again; both tables hold rows.
C10_Witness ==
  /\ pc = "idle" /\ cursor = seen
  /\ crashLog # <<>>
  /\ crashLog[1].pc = "idle"
  /\ crashLog[1].cursor = cursor
  /\ crashLog[1].cursor % CheckpointInterval # 0
  /\ sub_state > 0 /\ sub_state < cursor
  /\ post # {} /\ indieweb_post # {}

\* C11 as stated: no timer-driven load() runs while the registry is
\* stopped, that is, from the return of stop() (or from construction) to
\* the next start(); reloadTimer is unset exactly then.
C11_NoTimerLoadWhileStopped ==
  [][TimerLoad => reloadTimer]_vars

\* The creates of the event that carry a link.
linked == {k \in DOMAIN ops.creates : Len(linksOf(k)) > 0}

\* C12: a resolution that fails stages nothing, changes no table and lets
\* the loop go on with the next create; when the loop is over the resolver
\* has been called for every create with links, and when handleEvent has
\* finished every staged post has its row in indieweb_post and a uri the
\* event deletes and does not create has no row.
C12_FailedResolutionSkipsOnePost ==
  /\ [][(pc = "resolve" /\ lookup'.made /\ ~lookup'.ok) =>
          /\ pc' = "classify" /\ i' = i + 1
          /\ indiewebPostsToCreate' = indiewebPostsToCreate
          /\ stagedFrom' = stagedFrom
          /\ post' = post /\ indieweb_post' = indieweb_post]_vars
  /\ [](pc \in {"deleteIndieweb", "insertIndieweb", "done"} =>
          Range(resolverCalls) = linked)
  /\ [](pc = "done" =>
          /\ \A k \in Range(stagedFrom) :
               hasUri(indieweb_post, ops.creates[k].uri)
          /\ \A u \in Range(ops.deletes) \ createdUris :
               ~hasUri(indieweb_post, u) /\ ~hasUri(post, u))

\* The resolution of the second create of an event has failed after the
\* first create was staged; the event has deletes, and the loop is at its
\* head again.
C12_Witness ==
  /\ pc = "classify"
  /\ lookup.made /\ ~lookup.ok /\ lookup.index = 2
  /\ stagedFrom = <<1>>
  /\ i = 3
  /\ ops.deletes # <<>>

\* A header row: the first line of a file, naming the two columns.
isHeader(line) ==
  LET f == split(line, ",")
  IN  /\ Len(f) >= 2
      /\ toLowerCase(trim(f[1])) = s_handle
      /\ toLowerCase(trim(f[2])) = <<"d","o","m","a","i","n">>

\* The pairs (handle, domain) the rows of a file stand for: the rows that
\* are not blank, not a # comment and not the header, and have a first and
\* a second field that are not empty.
dataRows(content) ==
  LET lines == split(content, "\n")
  IN  {<<toLowerCase(trim(split(lines[n], ",")[1])),
         toLowerCase(trim(split(lines[n], ",")[2]))>> :
         n \in {m \in DOMAIN lines :
                  /\ trim(lines[m]) # <<>>
                  /\ ~startsWith(trim(lines[m]), <<"#">>)
                  /\ ~(m = 1 /\ isHeader(lines[m]))
                  /\ Len(split(lines[m], ",")) >= 2
                  /\ trim(split(lines[m], ",")[1]) # <<>>
                  /\ trim(split(lines[m], ",")[2]) # <<>>}}

\* A load() that reads and parses the file.
loadSucceeds == (TimerLoad \/ start) /\ csvFile.exists /\ csvFile.readable

\* C13: after a load() that succeeds every domain the table holds for a
\* handle is a domain of a row of that handle in the file as it is now, and
\* a handle of the table before that has no row in the file has no domains.
C13_TableIsTheFile ==
  [][loadSucceeds =>
       /\ \A h \in DOMAIN mappings' : \A d \in Range(mappings'[h]) :
            <<h, d>> \in dataRows(csvFile.content)
       /\ \A h \in DOMAIN mappings :
            (\A r \in dataRows(csvFile.content) : r[1] # h)
              => getDomainsForHandle(mappings', h) = <<>>]_vars

\* The last load() succeeded, took a handle out of the table and left
\* another table.
C13_Witness ==
  /\ evicted
  /\ console = "loaded"
  /\ mappings # EmptyMap

\* C14 as stated: after a load() that succeeds every row of the file that
\* is not blank, not a comment and has two fields that are not empty has
\* its domain in the table under its handle, wherever it is in the file.
C14_EveryDataRowLoaded ==
  [][loadSucceeds =>
       \A r \in dataRows(csvFile.content) :
         \E k \in DOMAIN getDomainsForHandle(mappings', r[1]) :
           getDomainsForHandle(mappings', r[1])[k] = r[2]]_vars

\* Handles in the letter case a caller may pass them.
QueryHandles ==
  {<<"a",".","i","o">>, <<"A",".","I","o">>, <<"D",".","M","E">>,
   <<"x",".","i","o">>}

\* C15 as stated: the list getDomainsForHandle returns holds no domain
\* twice, is empty for a handle without a row, and is the same for a handle
\* in any letter case.
C15_DomainsAreAnOrderedSet ==
  \A h \in QueryHandles \cup DOMAIN mappings :
    LET ds == getDomainsForHandle(mappings, h)
    IN  /\ \A a \in DOMAIN ds, b \in DOMAIN ds : ds[a] = ds[b] => a = b
        /\ toLowerCase(h) \notin DOMAIN mappings => ds = <<>>
        /\ ds = getDomainsForHandle(mappings, toLowerCase(h))

\* C16: among the statements handleEvent has executed for one event no
\* delete on a table comes after an insert on that table, and a step that
\* takes rows out of a table is taken before any insert of the event on
\* that table.
C16_DeletesBeforeInserts ==
  /\ [](\A a \in DOMAIN storeCalls, b \in DOMAIN storeCalls :
          (a < b /\ storeCalls[a][1] = storeCalls[b][1])
            => ~(storeCalls[a][2] = "insert" /\ storeCalls[b][2] = "delete"))
  /\ [][/\ (\E r \in post : r \notin post')
             => <<"post", "insert">> \notin Range(storeCalls)
        /\ (\E r \in indieweb_post : r \notin indieweb_post')
             => <<"indieweb_post", "insert">> \notin Range(storeCalls)]_vars

\* An event with creates and deletes has been handled: on each table the
\* delete was executed and then the insert.
C16_Witness ==
  /\ pc = "done"
  /\ storeCalls = <<<<"post", "delete">>, <<"post", "insert">>,
                    <<"indieweb_post", "delete">>,
                    <<"indieweb_post", "insert">>>>

\* C17: when handleEvent has finished, every create whose text holds the
\* marker has a row in post and every create the classifier staged has a
\* row in indieweb_post; the insert on post gives a row to exactly the uris
\* of creates with the marker (and keeps the rows there are), the insert on
\* indieweb_post to exactly the uris of staged creates; post changes only
\* in the two statements on post and indieweb_post only in the two
\* statements on indieweb_post.
C17_BranchesIndependent ==
  /\ [](pc = "done" =>
          /\ \A k \in DOMAIN ops.creates :
               isAlf(ops.creates[k]) => hasUri(post, ops.creates[k].uri)
          /\ \A k \in Range(stagedFrom) :
               hasUri(indieweb_post, ops.creates[k].uri))
  /\ [][/\ (pc = "insertPost" /\ pc' # pc) =>
             \A u \in URIs :
               hasUri(post', u) <=>
                 \/ hasUri(post, u)
                 \/ \E k \in DOMAIN ops.creates :
                      ops.creates[k].uri = u /\ isAlf(ops.creates[k])
        /\ (pc = "insertIndieweb" /\ pc' # pc) =>
             \A u \in URIs :
               hasUri(indieweb_post', u) <=>
                 \/ hasUri(indieweb_post, u)
                 \/ \E k \in Range(stagedFrom) : ops.creates[k].uri = u
        /\ post' # post => pc \in {"deletePost", "insertPost"}
        /\ indieweb_post' # indieweb_post
             => pc \in {"deleteIndieweb", "insertIndieweb"}]_vars

\* An event has been handled in which a post with the marker was staged by
\* the classifier and a post without the marker was staged too: the first
\* has one row in each table, the second a row in indieweb_post only.
C17_Witness ==
  /\ pc = "done"
  /\ \E k \in Range(stagedFrom) :
       /\ isAlf(ops.creates[k])
       /\ Cardinality({r \in post : r.uri = ops.creates[k].uri}) = 1
       /\ Cardinality({r \in indieweb_post : r.uri = ops.creates[k].uri}) = 1
  /\ \E k \in Range(stagedFrom) :
       /\ ~isAlf(ops.creates[k])
       /\ ~hasUri(post, ops.creates[k].uri)
       /\ hasUri(indieweb_post, ops.creates[k].uri)

\* A step of handleEvent: the subscription runs and the handler moves on.
handlerStep ==
  /\ pc \notin {"created", "started"}
  /\ <<pc, i>>' # <<pc, i>>

\* The uris the event being handled creates or deletes.
touched(o) ==
  {o.creates[k].uri : k \in DOMAIN o.creates} \cup Range(o.deletes)

rowsOf(table, u) == {r \in table : r.uri = u}

\* C18: a step of handleEvent leaves the cursor row and the mapping table
\* as they are, and leaves the rows of every uri the event neither creates
\* nor deletes as they are in both tables; so an event that is not a commit
\* and a commit without post creates and deletes change neither table.
C18_HandlerTouchesOnlyItsRows ==
  [][handlerStep =>
       /\ sub_state' = sub_state
       /\ mappings' = mappings
       /\ \A u \in URIs \ (touched(ops) \cup touched(ops')) :
            /\ rowsOf(post', u) = rowsOf(post, u)
            /\ rowsOf(indieweb_post', u) = rowsOf(indieweb_post, u)
       /\ (touched(ops) \cup touched(ops') = {}) =>
            post' = post /\ indieweb_post' = indieweb_post]_vars

\* An event that is not a commit, or a commit without post operations, has
\* been handled while both tables held rows: no statement was executed.
C18_Witness ==
  /\ pc = "done"
  /\ ops = NoOps
  /\ storeCalls = <<>>
  /\ post # {} /\ indieweb_post # {}

\* The handle the directory gives for a DID, <<>> if it gives none.
handleOf(did) ==
  LET h == getHandleFromDid(didDocs[did])
  IN  IF h.ok THEN h.handle ELSE <<>>

\* C19: a step that changes the mapping table or logs a load() changes no
\* row of either table and no staged row; a row leaves indieweb_post only
\* in the delete of an event that deletes its uri, and a row enters it only
\* in the insert of the event that staged it.
C19_ReloadKeepsRows ==
  [][/\ (mappings' # mappings \/ console' # console) =>
          /\ post' = post /\ indieweb_post' = indieweb_post
          /\ indiewebPostsToCreate' = indiewebPostsToCreate
     /\ \A r \in indieweb_post : r \notin indieweb_post' =>
          pc = "deleteIndieweb" /\ r.uri \in Range(ops.deletes)
     /\ \A r \in indieweb_post' : r \notin indieweb_post =>
          pc = "insertIndieweb" /\ r \in Range(indiewebPostsToCreate)]_vars

\* indieweb_post holds a post of an author whose handle ends with the
\* shared-hosting suffix, which only a mapping admits; the file has gone
\* and the last load() has emptied the table; the subscription is between
\* two events.
C19_Witness ==
  /\ pc = "idle"
  /\ \E r \in indieweb_post :
       /\ endsWith(handleOf(r.author), s_bsky_social)
       /\ getDomainsForHandle(parsedCsv[csvA], handleOf(r.author)) # <<>>
  /\ console = "not found"
  /\ mappings = EmptyMap

\* C20: the firehose runs, an interval is armed and a handle is looked up
\* in the table only after load() has run to its end at least once
\* (console holds what the last load() logged and is empty before the
\* first); the step that starts the firehose changes neither the table nor
\* the timer.
C20_FirstLoadBeforeFirehose ==
  /\ [](/\ pc \notin {"created"} => console # ""
        /\ intervals > 0 => console # ""
        /\ reloadTimer => intervals > 0
        /\ lookup.made => console # "")
  /\ [][(pc = "started" /\ pc' = "idle") =>
          mappings' = mappings /\ intervals' = intervals]_vars

\* A handle is looked up while the table is empty because the file could
\* not be read: the load() was attempted and failed before the lookup.
C20_Witness ==
  /\ lookup.made /\ lookup.ok
  /\ console = "failed"
  /\ lookup.table = EmptyMap
  /\ intervals = 1

====
